---- MODULE Spec2Model ----
(***************************************************************************)
(* Model of spread_fuse.py: the border classifier is_spread_candidate, the *)
(* merger merge_images_horizontally, the page scan of                      *)
(* process_folder_of_images and the archive pipeline process_one_cbz       *)
(* (extract_cbz, the scan, create_cbz_from_folder).                        *)
(*                                                                         *)
(* Three specifications share the module:                                  *)
(*   Spec          one run of process_one_cbz on one archive               *)
(*   SpecClassify  is_spread_candidate applied to a bounded image          *)
(*   SpecMerge     merge_images_horizontally applied to two bounded sizes  *)
(***************************************************************************)
EXTENDS Integers, Sequences, FiniteSets, TLC

VARIABLES
    \* ---- process_one_cbz ----
    archive,        \* the input .cbz: entry path -> image stored under it
    image_files,    \* the sorted list extract_cbz returned
    i,              \* the scan index of process_folder_of_images
    output_files,   \* the list process_folder_of_images returns (file names in output_folder)
    output_folder,  \* the files of output_folder: file name -> the pages it was made from
    slots,          \* per appended output: the input indexes it consumed and how
    calls,          \* every is_spread_candidate call of the scan, in order
    currents,       \* every value of i that was the current page ("Processing page")
    fused_cbz,      \* the file <name>_fused.cbz at its final path
    pc,             \* position in process_one_cbz
    \* ---- is_spread_candidate on its own ----
    c_img, c_border, c_result,
    \* ---- merge_images_horizontally on its own ----
    m_size1, m_size2, m_canvas

vars == <<archive, image_files, i, output_files, output_folder, slots, calls,
          currents, fused_cbz, pc, c_img, c_border, c_result,
          m_size1, m_size2, m_canvas>>

pipeline_vars == <<archive, image_files, i, output_files, output_folder, slots,
                   calls, currents, fused_cbz, pc>>
classify_vars == <<c_img, c_border, c_result>>
merge_vars == <<m_size1, m_size2, m_canvas>>

(***************************************************************************)
(* Bounds of the model.                                                    *)
(***************************************************************************)
MaxEntries == 4     \* entries in the input archive
MaxPixels == 6      \* width * height of an image handed to the classifier
MaxDim == 4         \* width or height of an image handed to the merger

(***************************************************************************)
(* Defaults of is_spread_candidate.                                        *)
(***************************************************************************)
border_size_default == 5
white_threshold_default == 250
black_threshold_default == 20

(***************************************************************************)
(* Images.  An image is its size and its RGB pixels, px[<<x, y>>].         *)
(***************************************************************************)
Black == <<20, 20, 20>>         \* avg = 20      : at the black threshold
NearBlack == <<21, 20, 20>>     \* avg = 20.33.. : just above it
NearWhite == <<250, 250, 249>>  \* avg = 249.66..: just below the white threshold
White == <<250, 250, 250>>      \* avg = 250     : at the white threshold

PixelValues == {Black, NearBlack, NearWhite, White}

Coords(w, h) == (0 .. w - 1) \X (0 .. h - 1)

Images(w, h) == [width : {w}, height : {h}, px : [Coords(w, h) -> PixelValues]]

Uniform(w, h, p) == [width |-> w, height |-> h, px |-> [c \in Coords(w, h) |-> p]]

\* img.getpixel((x, y)); a negative coordinate counts from the far edge.
getpixel(img, x, y) ==
    img.px[<<IF x < 0 THEN img.width + x ELSE x, IF y < 0 THEN img.height + y ELSE y>>]

\* avg = (r + g + b) / 3 is a true division: avg < t iff r + g + b < 3 * t.
ChannelSum(p) == p[1] + p[2] + p[3]
AvgBelow(p, t) == ChannelSum(p) < 3 * t
AvgAbove(p, t) == ChannelSum(p) > 3 * t

(***************************************************************************)
(* is_spread_candidate.  One border loop: x over range(x0, x1), y over     *)
(* range(height); k counts the pixels visited so far.  flags holds the     *)
(* pair (border_has_black, border_all_black).                              *)
(***************************************************************************)
RECURSIVE ScanBorder(_, _, _, _, _, _, _)
ScanBorder(img, x0, x1, white_threshold, black_threshold, k, flags) ==
    IF x1 <= x0 \/ k >= (x1 - x0) * img.height
    THEN flags
    ELSE LET x == x0 + (k \div img.height)
             y == k % img.height
             p == getpixel(img, x, y)
         IN  ScanBorder(img, x0, x1, white_threshold, black_threshold, k + 1,
                 [has_black |-> flags.has_black \/ AvgBelow(p, white_threshold),
                  all_black |-> flags.all_black /\ ~AvgAbove(p, black_threshold)])

InitialFlags == [has_black |-> FALSE, all_black |-> TRUE]

\* getpixel raises IndexError in the left loop when border_size > width.
RaisesIndexError(img, border_size) ==
    border_size > img.width /\ img.height > 0

\* the final test with "or" for "and"
is_spread_candidate_either(img, border_size, white_threshold, black_threshold) ==
    LET left == ScanBorder(img, 0, border_size,
                           white_threshold, black_threshold, 0, InitialFlags)
        right == ScanBorder(img, img.width - border_size, img.width,
                            white_threshold, black_threshold, 0, InitialFlags)
    IN  IF left.all_black \/ right.all_black
        THEN FALSE
        ELSE left.has_black \/ right.has_black

is_spread_candidate(img, border_size, white_threshold, black_threshold) ==
    LET left == ScanBorder(img, 0, border_size,
                           white_threshold, black_threshold, 0, InitialFlags)
        right == ScanBorder(img, img.width - border_size, img.width,
                            white_threshold, black_threshold, 0, InitialFlags)
    IN  IF left.all_black \/ right.all_black
        THEN FALSE
        ELSE left.has_black /\ right.has_black

(***************************************************************************)
(* merge_images_horizontally.  A size is <<width, height>>; image 1 is the *)
(* current page, image 2 the next page.  The canvas records its size, its  *)
(* fill and the two pastes in the order they are made; a paste's box is    *)
(* (x0, y0, x1, y1), x1 and y1 exclusive, as Image.paste places an image   *)
(* of the resized size at an offset.                                       *)
(***************************************************************************)
Max(a, b) == IF a >= b THEN a ELSE b

\* int(width * new_height / height) on positive integers
ResizedWidth(width, height, new_height) ==
    IF height # new_height THEN (width * new_height) \div height ELSE width

PasteBox(x, y, width, height) == [x0 |-> x, y0 |-> y, x1 |-> x + width, y1 |-> y + height]

\* the current image pasted at its own width instead of the next image's
merge_images_horizontally_offset(size1, size2) ==
    LET width1 == size1[1]
        height1 == size1[2]
        width2 == size2[1]
        height2 == size2[2]
        new_height == Max(height1, height2)
        new_width1 == ResizedWidth(width1, height1, new_height)
        new_width2 == ResizedWidth(width2, height2, new_height)
        new_width == new_width1 + new_width2
    IN  [width |-> new_width,
         height |-> new_height,
         fill |-> <<255, 255, 255>>,
         pastes |-> << [image |-> "next",
                        box |-> PasteBox(0, 0, new_width2, new_height)],
                       [image |-> "current",
                        box |-> PasteBox(new_width1, 0, new_width1, new_height)] >>]

merge_images_horizontally(size1, size2) ==
    LET width1 == size1[1]
        height1 == size1[2]
        width2 == size2[1]
        height2 == size2[2]
        new_height == Max(height1, height2)
        new_width1 == ResizedWidth(width1, height1, new_height)
        new_width2 == ResizedWidth(width2, height2, new_height)
        new_width == new_width1 + new_width2
    IN  [width |-> new_width,
         height |-> new_height,
         fill |-> <<255, 255, 255>>,
         pastes |-> << [image |-> "next",
                        box |-> PasteBox(0, 0, new_width2, new_height)],
                       [image |-> "current",
                        box |-> PasteBox(new_width2, 0, new_width1, new_height)] >>]

(***************************************************************************)
(* Files.  A path inside the archive is a sub-folder, a stem and an        *)
(* extension; os.path.basename drops the folder and os.path.splitext the   *)
(* extension.  Paths sort as their strings do.                             *)
(***************************************************************************)
Dirs == <<"a", "b">>
Stems == <<"p1", "p2">>
Exts == <<".jpg", ".png", ".txt">>

Range(seq) == {seq[k] : k \in 1 .. Len(seq)}
IndexOf(seq, x) == CHOOSE k \in 1 .. Len(seq) : seq[k] = x

Paths == [dir : Range(Dirs), stem : Range(Stems), ext : Range(Exts)]

basename(path) == [stem |-> path.stem, ext |-> path.ext]
splitext_stem(name) == name.stem

\* file.lower().endswith(('.png', '.jpg', '.jpeg'))
IsImageFile(path) == path.ext \in {".png", ".jpg", ".jpeg"}

PathBefore(p, q) ==
    LET dp == IndexOf(Dirs, p.dir)
        dq == IndexOf(Dirs, q.dir)
        sp == IndexOf(Stems, p.stem)
        sq == IndexOf(Stems, q.stem)
        ep == IndexOf(Exts, p.ext)
        eq == IndexOf(Exts, q.ext)
    IN  \/ dp < dq
        \/ dp = dq /\ sp < sq
        \/ dp = dq /\ sp = sq /\ ep < eq

RECURSIVE SortedList(_)
SortedList(S) ==
    IF S = {}
    THEN << >>
    ELSE LET m == CHOOSE x \in S : \A y \in S \ {x} : PathBefore(x, y)
         IN  <<m>> \o SortedList(S \ {m})

\* extract_cbz: every image file of the archive, sorted
extract_cbz(zip) == SortedList({p \in DOMAIN zip : IsImageFile(p)})

(***************************************************************************)
(* The page images an archive may hold, by name; Image_open decodes one.   *)
(***************************************************************************)
ArtPage == Uniform(5, 1, NearWhite)
WhitePage == Uniform(5, 1, White)
GutterPage ==
    [width |-> 10, height |-> 1,
     px |-> [c \in Coords(10, 1) |-> IF c[1] < 5 THEN Black ELSE NearWhite]]

Catalogue == {"art", "white", "gutter"}

Image_open(name) ==
    CASE name = "art" -> ArtPage
      [] name = "white" -> WhitePage
      [] name = "gutter" -> GutterPage

\* an archive: at most MaxEntries entries, an image under every image path
Archives ==
    LET Contents == UNION { [S -> Catalogue \cup {"text"}] :
                            S \in {T \in SUBSET Paths : Cardinality(T) <= MaxEntries} }
    IN  {a \in Contents : \A p \in DOMAIN a : (a[p] = "text") <=> ~IsImageFile(p)}

(***************************************************************************)
(* process_one_cbz: extraction, the scan of process_folder_of_images, the  *)
(* packing of create_cbz_from_folder.  Any step that reads or writes a     *)
(* file may raise; nothing catches it, so the run ends there ("failed").   *)
(***************************************************************************)
NoArchive == [state |-> "absent", entries |-> {}]

EmptyFolder == [f \in {} |-> << >>]

PipelineInit ==
    /\ archive \in Archives
    /\ image_files = << >>
    /\ i = 0
    /\ output_files = << >>
    /\ output_folder = EmptyFolder
    /\ slots = << >>
    /\ calls = << >>
    /\ currents = << >>
    /\ fused_cbz = NoArchive
    /\ pc = "extract"

PipelineIdle ==
    /\ archive = EmptyFolder
    /\ image_files = << >>
    /\ i = 0
    /\ output_files = << >>
    /\ output_folder = EmptyFolder
    /\ slots = << >>
    /\ calls = << >>
    /\ currents = << >>
    /\ fused_cbz = NoArchive
    /\ pc = "idle"

\* 1) Extraction
Extract ==
    /\ pc = "extract"
    /\ image_files' = extract_cbz(archive)
    /\ pc' = "scan"
    /\ UNCHANGED <<archive, i, output_files, output_folder, slots, calls,
                   currents, fused_cbz>>

\* zipfile.ZipFile(cbz_path, 'r') or extractall raises
ExtractFail ==
    /\ pc = "extract"
    /\ pc' = "failed"
    /\ UNCHANGED <<archive, image_files, i, output_files, output_folder, slots,
                   calls, currents, fused_cbz>>

total_images == Len(image_files)

\* image_files[i], with the source's 0-based index
PageAt(k) == image_files[k + 1]

Verdict(k) ==
    is_spread_candidate(Image_open(archive[PageAt(k)]), border_size_default,
                        white_threshold_default, black_threshold_default)

\* saving a file under `name` in output_folder replaces any file of that name
Save(folder, name, content) ==
    [f \in DOMAIN folder \cup {name} |-> IF f = name THEN content ELSE folder[f]]

merged_filename(base_name) == [stem |-> base_name, ext |-> ".jpg"]

SpreadDetected_either(current_is_spread, next_is_spread) ==
    current_is_spread \/ next_is_spread

SpreadDetected(current_is_spread, next_is_spread) ==
    current_is_spread /\ next_is_spread

\* the merge branch without "Skip the next page"
MergeBranch_noskip ==
    LET base_name == splitext_stem(basename(PageAt(i)))
        merged_path == merged_filename(base_name)
    IN  /\ output_folder' = Save(output_folder, merged_path, <<i + 1, i>>)
        /\ output_files' = Append(output_files, merged_path)
        /\ slots' = Append(slots, [pages |-> <<i, i + 1>>, merged |-> TRUE])
        /\ i' = i + 1

\* the branch "Spread detected: merge them"; the next page is pasted on the left
MergeBranch ==
    LET base_name == splitext_stem(basename(PageAt(i)))
        merged_path == merged_filename(base_name)
    IN  /\ output_folder' = Save(output_folder, merged_path, <<i + 1, i>>)
        /\ output_files' = Append(output_files, merged_path)
        /\ slots' = Append(slots, [pages |-> <<i, i + 1>>, merged |-> TRUE])
        /\ i' = i + 2

\* the copy branch advancing by 2
CopyBranch_skip ==
    LET output_path == basename(PageAt(i))
    IN  /\ output_folder' = Save(output_folder, output_path, <<i>>)
        /\ output_files' = Append(output_files, output_path)
        /\ slots' = Append(slots, [pages |-> <<i>>, merged |-> FALSE])
        /\ i' = IF i < total_images - 1 THEN i + 2 ELSE i + 1

\* the branches "Not a spread, just copy the image" and "Last image"
CopyBranch ==
    LET output_path == basename(PageAt(i))
    IN  /\ output_folder' = Save(output_folder, output_path, <<i>>)
        /\ output_files' = Append(output_files, output_path)
        /\ slots' = Append(slots, [pages |-> <<i>>, merged |-> FALSE])
        /\ i' = i + 1

\* the loop classifying the last page too
ScanStep_classifylast ==
    /\ pc = "scan"
    /\ i < total_images
    /\ currents' = Append(currents, i)
    /\ IF i < total_images - 1
       THEN /\ calls' = calls \o <<i, i + 1>>
            /\ IF SpreadDetected(Verdict(i), Verdict(i + 1))
               THEN MergeBranch
               ELSE CopyBranch
       ELSE /\ calls' = Append(calls, i)
            /\ CopyBranch
    /\ UNCHANGED <<archive, image_files, fused_cbz, pc>>

\* the loop inserting each output at the head of the list
ScanStep_prepend ==
    /\ pc = "scan"
    /\ i < total_images
    /\ currents' = Append(currents, i)
    /\ calls' = IF i < total_images - 1 THEN calls \o <<i, i + 1>> ELSE calls
    /\ LET merge == /\ i < total_images - 1
                    /\ SpreadDetected(Verdict(i), Verdict(i + 1))
           name == IF merge
                   THEN merged_filename(splitext_stem(basename(PageAt(i))))
                   ELSE basename(PageAt(i))
       IN  /\ output_folder' =
                 Save(output_folder, name, IF merge THEN <<i + 1, i>> ELSE <<i>>)
           /\ output_files' = <<name>> \o output_files
           /\ slots' = <<[pages |-> IF merge THEN <<i, i + 1>> ELSE <<i>>,
                          merged |-> merge]>> \o slots
           /\ i' = IF merge THEN i + 2 ELSE i + 1
    /\ UNCHANGED <<archive, image_files, fused_cbz, pc>>

\* one iteration of the while loop of process_folder_of_images
ScanStep ==
    /\ pc = "scan"
    /\ i < total_images
    /\ currents' = Append(currents, i)
    /\ IF i < total_images - 1
       THEN /\ calls' = calls \o <<i, i + 1>>
            /\ IF SpreadDetected(Verdict(i), Verdict(i + 1))
               THEN MergeBranch
               ELSE CopyBranch
       ELSE /\ calls' = calls
            /\ CopyBranch
    /\ UNCHANGED <<archive, image_files, fused_cbz, pc>>

\* Image.open, Image.save or the merge raises inside an iteration
ScanFail ==
    /\ pc = "scan"
    /\ i < total_images
    /\ pc' = "failed"
    /\ UNCHANGED <<archive, image_files, i, output_files, output_folder, slots,
                   calls, currents, fused_cbz>>

\* the loop ends and process_folder_of_images returns output_files
ScanReturn ==
    /\ pc = "scan"
    /\ ~(i < total_images)
    /\ pc' = "pack"
    /\ UNCHANGED <<archive, image_files, i, output_files, output_folder, slots,
                   calls, currents, fused_cbz>>

\* create_cbz_from_folder: the image files found under folder_path
files_to_add == {f \in DOMAIN output_folder : IsImageFile(f)}

\* zipfile.ZipFile(cbz_output_path, 'w', ...) creates the file at the final path
PackOpen ==
    /\ pc = "pack"
    /\ fused_cbz' = [state |-> "open", entries |-> {}]
    /\ pc' = "pack_write"
    /\ UNCHANGED <<archive, image_files, i, output_files, output_folder, slots,
                   calls, currents>>

\* the final path cannot be created
PackOpenFail ==
    /\ pc = "pack"
    /\ pc' = "failed"
    /\ UNCHANGED <<archive, image_files, i, output_files, output_folder, slots,
                   calls, currents, fused_cbz>>

\* zipf.write of the next file of files_to_add (os.walk fixes no order)
PackWrite ==
    /\ pc = "pack_write"
    /\ \E f \in files_to_add \ fused_cbz.entries :
          fused_cbz' = [fused_cbz EXCEPT !.entries = @ \cup {f}]
    /\ UNCHANGED <<archive, image_files, i, output_files, output_folder, slots,
                   calls, currents, pc>>

\* zipf.write raises: the with block closes the archive where it stands
PackWriteFail ==
    /\ pc = "pack_write"
    /\ files_to_add \ fused_cbz.entries # {}
    /\ fused_cbz' = [fused_cbz EXCEPT !.state = "partial"]
    /\ pc' = "failed"
    /\ UNCHANGED <<archive, image_files, i, output_files, output_folder, slots,
                   calls, currents>>

\* the with block ends: the archive is closed, complete
PackClose ==
    /\ pc = "pack_write"
    /\ files_to_add \ fused_cbz.entries = {}
    /\ fused_cbz' = [fused_cbz EXCEPT !.state = "complete"]
    /\ pc' = "done"
    /\ UNCHANGED <<archive, image_files, i, output_files, output_folder, slots,
                   calls, currents>>

(***************************************************************************)
(* is_spread_candidate and merge_images_horizontally applied on their own. *)
(***************************************************************************)
Shapes == {s \in (1 .. MaxPixels) \X (1 .. MaxPixels) : s[1] * s[2] <= MaxPixels}

ClassifyInputs == UNION {Images(s[1], s[2]) : s \in Shapes}

NoImage == Uniform(1, 1, White)

ClassifyInit ==
    /\ c_img \in ClassifyInputs
    /\ c_border \in 1 .. border_size_default
    /\ c_result = "none"

ClassifyIdle ==
    /\ c_img = NoImage
    /\ c_border = border_size_default
    /\ c_result = "none"

Classify ==
    /\ c_result = "none"
    /\ c_result' =
          IF RaisesIndexError(c_img, c_border)
          THEN "IndexError"
          ELSE IF is_spread_candidate(c_img, c_border, white_threshold_default,
                                      black_threshold_default)
               THEN "true"
               ELSE "false"
    /\ UNCHANGED <<c_img, c_border>>
    /\ UNCHANGED pipeline_vars
    /\ UNCHANGED merge_vars

\* the sizes of the spec's two merge examples, beside the bounded ones
ExampleSizes == {<<1000, 1500>>, <<800, 1500>>, <<500, 750>>}

MergeSizes == ((1 .. MaxDim) \X (1 .. MaxDim)) \cup ExampleSizes

NoCanvas == [width |-> 0, height |-> 0, fill |-> <<255, 255, 255>>, pastes |-> << >>]

MergeInit ==
    /\ m_size1 \in MergeSizes
    /\ m_size2 \in MergeSizes
    /\ m_canvas = NoCanvas

MergeIdle ==
    /\ m_size1 = <<1, 1>>
    /\ m_size2 = <<1, 1>>
    /\ m_canvas = NoCanvas

Merge ==
    /\ m_canvas = NoCanvas
    /\ m_canvas' = merge_images_horizontally(m_size1, m_size2)
    /\ UNCHANGED <<m_size1, m_size2>>
    /\ UNCHANGED pipeline_vars
    /\ UNCHANGED classify_vars

(***************************************************************************)
(* The specifications.                                                     *)
(***************************************************************************)
Init == PipelineInit /\ ClassifyIdle /\ MergeIdle

Next ==
    \/ (Extract /\ UNCHANGED classify_vars /\ UNCHANGED merge_vars)
    \/ (ExtractFail /\ UNCHANGED classify_vars /\ UNCHANGED merge_vars)
    \/ (ScanStep /\ UNCHANGED classify_vars /\ UNCHANGED merge_vars)
    \/ (ScanFail /\ UNCHANGED classify_vars /\ UNCHANGED merge_vars)
    \/ (ScanReturn /\ UNCHANGED classify_vars /\ UNCHANGED merge_vars)
    \/ (PackOpen /\ UNCHANGED classify_vars /\ UNCHANGED merge_vars)
    \/ (PackOpenFail /\ UNCHANGED classify_vars /\ UNCHANGED merge_vars)
    \/ (PackWrite /\ UNCHANGED classify_vars /\ UNCHANGED merge_vars)
    \/ (PackWriteFail /\ UNCHANGED classify_vars /\ UNCHANGED merge_vars)
    \/ (PackClose /\ UNCHANGED classify_vars /\ UNCHANGED merge_vars)

Spec == Init /\ [][Next]_vars

InitClassify == PipelineIdle /\ ClassifyInit /\ MergeIdle

NextClassify == Classify

SpecClassify == InitClassify /\ [][NextClassify]_vars

InitMerge == PipelineIdle /\ ClassifyIdle /\ MergeInit

NextMerge == Merge

SpecMerge == InitMerge /\ [][NextMerge]_vars

(***************************************************************************)
(* Properties of the scan of process_folder_of_images.                     *)
(***************************************************************************)
ScanFinished == pc \in {"pack", "pack_write", "done"}

SlotIndexes == 1 .. Len(slots)

PagesOf(s) == Range(slots[s].pages)

FirstPage(s) == slots[s].pages[1]

CallsOn(k) == {c \in 1 .. Len(calls) : calls[c] = k}

\* The calls come in pairs: (current page, next page) of one iteration.
CallPairs == 1 .. (Len(calls) \div 2)

\* C1: when the scan has finished, the output has at most N entries and every
\* input page index is in exactly one output slot, which is either that page
\* alone (a passthrough) or a merge of two adjacent pages.
C1_EachPageInExactlyOneSlot ==
    ScanFinished =>
        /\ Len(output_files) <= total_images
        /\ Len(slots) = Len(output_files)
        /\ \A k \in 0 .. total_images - 1 :
              Cardinality({s \in SlotIndexes : k \in PagesOf(s)}) = 1
        /\ \A s \in SlotIndexes :
              \/ ~slots[s].merged /\ Len(slots[s].pages) = 1
              \/ /\ slots[s].merged
                 /\ Len(slots[s].pages) = 2
                 /\ slots[s].pages[2] = slots[s].pages[1] + 1
        /\ \A s \in SlotIndexes : PagesOf(s) \subseteq 0 .. total_images - 1

C1_Witness ==
    /\ ScanFinished
    /\ total_images = 4
    /\ \E s \in SlotIndexes : slots[s].merged
    /\ \E s \in SlotIndexes : ~slots[s].merged /\ FirstPage(s) < total_images - 1

\* C2: at every step the output list is in strictly increasing order of the
\* input index of each slot's first page; and when the scan has finished with
\* no merge, the output has exactly N entries, entry k being input page k
\* under its original basename and extension.
C2_OrderPreserved ==
    /\ Len(slots) = Len(output_files)
    /\ \A s, t \in SlotIndexes : s < t => FirstPage(s) < FirstPage(t)
    /\ (ScanFinished /\ \A s \in SlotIndexes : ~slots[s].merged) =>
          /\ Len(output_files) = total_images
          /\ \A k \in 0 .. total_images - 1 :
                /\ output_files[k + 1].stem = PageAt(k).stem
                /\ output_files[k + 1].ext = PageAt(k).ext
                /\ slots[k + 1].pages = <<k>>

C2_Witness ==
    /\ ScanFinished
    /\ total_images = 4
    /\ \A s \in SlotIndexes : ~slots[s].merged
    /\ \E k \in 0 .. 2 : Verdict(k)
    /\ \E k \in 0 .. 3 : PageAt(k).ext = ".png"

\* C3: if pages a and a+1 were merged, page a+1 is never the current page and
\* is classified only in that merge decision, page a+2 is the next current
\* page, and no classifier call pairs page a+2 (or any page) with page a+1
\* other than the merge decision itself.
C3_ConsumedPartnerNeverReexamined ==
    /\ Len(currents) = Len(slots)
    /\ \A s \in SlotIndexes :
          slots[s].merged =>
             LET a == slots[s].pages[1]
                 b == slots[s].pages[2]
             IN  /\ b = a + 1
                 /\ currents[s] = a
                 /\ \A k \in 1 .. Len(currents) : currents[k] # b
                 /\ Cardinality(CallsOn(b)) = 1
                 /\ \A j \in CallPairs :
                       (calls[2 * j - 1] = b \/ calls[2 * j] = b)
                          => (calls[2 * j - 1] = a /\ calls[2 * j] = b)
                 /\ (s < Len(currents)) => currents[s + 1] = a + 2
                 /\ (s = Len(currents)) => i = a + 2
                 /\ \A j \in CallPairs :
                       calls[2 * j - 1] = a + 2 => calls[2 * j] = a + 3

C3_Witness ==
    /\ ScanFinished
    /\ \E s \in SlotIndexes :
          /\ slots[s].merged
          /\ CallsOn(FirstPage(s) + 2) # {}
          /\ s < Len(currents)

\* C4: an iteration at an index i that is not the last one merges pages i and
\* i+1 exactly when is_spread_candidate is true of page i and of page i+1;
\* the merged slot is named page i's stem with .jpg and i advances by 2.
\* Otherwise page i is passed through under its own basename and extension
\* and i advances by 1.
C4_MergeIffBothCandidates ==
    [][ (pc = "scan" /\ i < total_images - 1 /\ i' # i) =>
          IF Verdict(i) /\ Verdict(i + 1)
          THEN /\ i' = i + 2
               /\ output_files' =
                     Append(output_files, [stem |-> PageAt(i).stem, ext |-> ".jpg"])
               /\ slots' = Append(slots, [pages |-> <<i, i + 1>>, merged |-> TRUE])
          ELSE /\ i' = i + 1
               /\ output_files' =
                     Append(output_files,
                            [stem |-> PageAt(i).stem, ext |-> PageAt(i).ext])
               /\ slots' = Append(slots, [pages |-> <<i>>, merged |-> FALSE])
      ]_vars

C4_Witness ==
    /\ ScanFinished
    /\ \E s \in SlotIndexes : slots[s].merged /\ PageAt(FirstPage(s)).ext = ".png"
    /\ \E s \in SlotIndexes :
          /\ ~slots[s].merged
          /\ FirstPage(s) < total_images - 1
          /\ Verdict(FirstPage(s)) # Verdict(FirstPage(s) + 1)

\* C8: whenever the last index is the current page, that page is passed
\* through under its original basename and no classifier call is made in that
\* iteration; a single page gives one passthrough slot and zero classifier
\* calls, and an empty list gives an empty output list.
C8_LastPagePassthrough ==
    /\ Len(currents) = Len(slots)
    /\ Len(slots) = Len(output_files)
    /\ \A k \in 1 .. Len(currents) :
          currents[k] = total_images - 1 =>
             /\ slots[k] = [pages |-> <<total_images - 1>>, merged |-> FALSE]
             /\ output_files[k] = basename(PageAt(total_images - 1))
    /\ Len(calls) =
          2 * Cardinality({k \in 1 .. Len(currents) : currents[k] < total_images - 1})
    /\ (ScanFinished /\ total_images = 1) =>
          /\ Len(output_files) = 1
          /\ output_files[1] = basename(PageAt(0))
          /\ calls = << >>
    /\ (ScanFinished /\ total_images = 0) => output_files = << >>

C8_Witness ==
    /\ ScanFinished
    /\ total_images = 1
    /\ Verdict(0)
    /\ Len(output_files) = 1

(***************************************************************************)
(* Properties of process_one_cbz and of the files written.                 *)
(***************************************************************************)
\* C9: a failed run leaves no new or partially written <name>_fused.cbz at
\* the final path.
C9_FailedRunLeavesNoArchive ==
    pc = "failed" => fused_cbz.state = "absent"

\* C10: the input paths being pairwise distinct, the output paths are
\* pairwise distinct and output_folder holds as many files as there are
\* output slots.
C10_OneFilePerSlot ==
    ScanFinished =>
        /\ \A s, t \in 1 .. Len(output_files) :
              s # t => output_files[s] # output_files[t]
        /\ Cardinality(DOMAIN output_folder) = Len(output_files)

(***************************************************************************)
(* Properties of is_spread_candidate.                                      *)
(***************************************************************************)
LeftStrip(img, border_size) == {c \in DOMAIN img.px : c[1] < border_size}

RightStrip(img, border_size) == {c \in DOMAIN img.px : c[1] >= img.width - border_size}

BlackIn(img, strip) == {c \in strip : ChannelSum(img.px[c]) <= 3 * black_threshold_default}

NonWhiteIn(img, strip) == {c \in strip : ChannelSum(img.px[c]) < 3 * white_threshold_default}

\* black_ratio > 0.45, on integers
MostlyBlack(img, strip) ==
    100 * Cardinality(BlackIn(img, strip)) > 45 * Cardinality(strip)

\* C5: an image whose left or right border has a fraction of black pixels
\* above 0.45 is never classified as a spread candidate.
C5_BlackEdgeVeto ==
    (c_result # "none"
       /\ \/ MostlyBlack(c_img, LeftStrip(c_img, c_border))
          \/ MostlyBlack(c_img, RightStrip(c_img, c_border)))
      => c_result # "true"

\* C6: is_spread_candidate returns true only if the left border and the right
\* border each hold a pixel with avg < white_threshold.
C6_WhiteEdgeVeto ==
    c_result = "true" =>
        /\ NonWhiteIn(c_img, LeftStrip(c_img, c_border)) # {}
        /\ NonWhiteIn(c_img, RightStrip(c_img, c_border)) # {}

C6_Witness ==
    /\ c_result = "false"
    /\ 2 * c_border <= c_img.width
    /\ NonWhiteIn(c_img, LeftStrip(c_img, c_border)) = {}
    /\ NonWhiteIn(c_img, RightStrip(c_img, c_border)) # {}
    /\ BlackIn(c_img, RightStrip(c_img, c_border)) # RightStrip(c_img, c_border)

(***************************************************************************)
(* Properties of merge_images_horizontally.                                *)
(***************************************************************************)
Scaled(size, H) == IF size[2] = H THEN size[1] ELSE (size[1] * H) \div size[2]

Covers(paste, x, y) ==
    /\ paste.box.x0 <= x /\ x < paste.box.x1
    /\ paste.box.y0 <= y /\ y < paste.box.y1

\* C7: the canvas is max(h1, h2) high and w1' + w2' wide; the next image
\* covers x in [0, w2') and the current image x in [w2', w2' + w1'), so every
\* canvas pixel is covered by exactly one of the two.
C7_MergeGeometry ==
    m_canvas # NoCanvas =>
        LET H == IF m_size1[2] > m_size2[2] THEN m_size1[2] ELSE m_size2[2]
            w1 == Scaled(m_size1, H)
            w2 == Scaled(m_size2, H)
            next == m_canvas.pastes[1]
            current == m_canvas.pastes[2]
        IN  /\ m_canvas.height = H
            /\ m_canvas.width = w1 + w2
            /\ Len(m_canvas.pastes) = 2
            /\ next.image = "next" /\ current.image = "current"
            /\ \A x \in 0 .. m_canvas.width - 1 :
                  \A y \in {0, H - 1} :
                     /\ Covers(next, x, y) <=> x < w2
                     /\ Covers(current, x, y) <=> x >= w2
            /\ next.box.x1 <= m_canvas.width /\ current.box.x1 <= m_canvas.width
            /\ next.box.y1 = H /\ current.box.y1 = H
            /\ (m_size1 = <<1000, 1500>> /\ m_size2 = <<800, 1500>>)
                  => (m_canvas.width = 1800 /\ m_canvas.height = 1500)
            /\ (m_size1 = <<1000, 1500>> /\ m_size2 = <<500, 750>>)
                  => (m_canvas.width = 2000 /\ m_canvas.height = 1500)

C7_Witness ==
    /\ m_size1 = <<1000, 1500>>
    /\ m_size2 = <<500, 750>>
    /\ m_canvas.width = 2000
    /\ m_canvas.height = 1500
    /\ m_canvas.pastes[1].box.x1 = 1000

====
